---- MODULE Spec2Model ----
(***************************************************************************)
(* Model of the recipe extraction engine (recipe_api.py).                  *)
(*                                                                         *)
(* A Python str is a sequence of characters; a character is a one-letter   *)
(* TLA+ string ("e_acute" stands for U+00E9).  A float is <<"float", n, d>>,*)
(* the fraction n/d in lowest terms with d > 0; an exception that leaves a  *)
(* function is <<"raise", name>>.                                          *)
(***************************************************************************)
EXTENDS Integers, Sequences, FiniteSets, TLC

\* None; no str of the model equals it, its only element is not a character
None == <<"None">>

\* ---------------------------------------------------------------------
\* Characters
\* ---------------------------------------------------------------------
LowerAlpha == <<"a","b","c","d","e","f","g","h","i","j","k","l","m","n","o","p","q","r","s","t","u","v","w","x","y","z">>
UpperAlpha == <<"A","B","C","D","E","F","G","H","I","J","K","L","M","N","O","P","Q","R","S","T","U","V","W","X","Y","Z">>
DigitChars == <<"0","1","2","3","4","5","6","7","8","9">>

Range(f) == { f[i] : i \in DOMAIN f }

IsDigit(c) == c \in Range(DigitChars)
IsUpper(c) == c \in Range(UpperAlpha)
IsLower(c) == c \in Range(LowerAlpha) \cup {"e_acute"}
\* str.strip(), str.split() and \s: whitespace
IsSpace(c) == c \in {" ", "\t", "\n"}
\* \w of a str pattern: alphanumeric or underscore
IsWordChar(c) == IsDigit(c) \/ IsUpper(c) \/ IsLower(c) \/ c = "_"

IndexIn(seq, c) == CHOOSE i \in DOMAIN seq : seq[i] = c

\* str.lower() on one character
LowerChar(c) == IF IsUpper(c) THEN LowerAlpha[IndexIn(UpperAlpha, c)] ELSE c

\* code point, the key of str comparison
PunctOrd == [c \in {"\t", "\n", " ", ",", "-", ".", "/", ";", "_"} |->
               CASE c = "\t" -> 9  [] c = "\n" -> 10 [] c = " " -> 32
                 [] c = ","  -> 44 [] c = "-"  -> 45 [] c = "." -> 46
                 [] c = "/"  -> 47 [] c = ";"  -> 59 [] c = "_" -> 95]
Ord(c) ==
    IF IsDigit(c) THEN 47 + IndexIn(DigitChars, c)
    ELSE IF IsUpper(c) THEN 64 + IndexIn(UpperAlpha, c)
    ELSE IF c = "e_acute" THEN 233
    ELSE IF IsLower(c) THEN 96 + IndexIn(LowerAlpha, c)
    ELSE PunctOrd[c]

\* ---------------------------------------------------------------------
\* Lexicons
\* ---------------------------------------------------------------------
UNITS ==
    << <<"t","e","a","s","p","o","o","n">>,
       <<"t","e","a","s","p","o","o","n","s">>,
       <<"t","s","p">>,
       <<"t","a","b","l","e","s","p","o","o","n">>,
       <<"t","a","b","l","e","s","p","o","o","n","s">>,
       <<"t","b","s","p">>,
       <<"c","u","p">>,
       <<"c","u","p","s">>,
       <<"p","i","n","t">>,
       <<"p","i","n","t","s">>,
       <<"q","u","a","r","t">>,
       <<"q","u","a","r","t","s">>,
       <<"p","o","u","n","d">>,
       <<"p","o","u","n","d","s">>,
       <<"l","b">>,
       <<"l","b","s">>,
       <<"o","u","n","c","e">>,
       <<"o","u","n","c","e","s">>,
       <<"o","z">>,
       <<"c","l","o","v","e">>,
       <<"c","l","o","v","e","s">>,
       <<"p","i","n","c","h">>,
       <<"d","a","s","h">>,
       <<"s","l","i","c","e">>,
       <<"s","l","i","c","e","s">>,
       <<"c","a","n">>,
       <<"c","a","n","s">>,
       <<"p","a","c","k","a","g","e">>,
       <<"p","a","c","k","a","g","e","s">> >>

DESCRIPTORS ==
    << <<"f","r","e","s","h">>,
       <<"d","r","i","e","d">>,
       <<"l","e","a","n">>,
       <<"b","o","n","e","l","e","s","s">>,
       <<"s","k","i","n","l","e","s","s">>,
       <<"e","x","t","r","a","-","v","i","r","g","i","n">>,
       <<"l","a","r","g","e">>,
       <<"s","m","a","l","l">>,
       <<"m","e","d","i","u","m">>,
       <<"m","i","n","c","e","d">>,
       <<"c","h","o","p","p","e","d">>,
       <<"s","h","r","e","d","d","e","d">>,
       <<"g","r","a","t","e","d">> >>

TOOLS ==
    << <<"o","v","e","n">>,
       <<"p","a","n">>,
       <<"s","k","i","l","l","e","t">>,
       <<"b","a","k","i","n","g"," ","s","h","e","e","t">>,
       <<"b","a","k","i","n","g"," ","d","i","s","h">>,
       <<"d","i","s","h">>,
       <<"p","o","t">>,
       <<"s","a","u","c","e","p","a","n">>,
       <<"w","h","i","s","k">>,
       <<"b","o","w","l">>,
       <<"k","n","i","f","e">>,
       <<"s","p","a","t","u","l","a">>,
       <<"g","r","a","t","e","r">>,
       <<"c","o","l","a","n","d","e","r">>,
       <<"m","i","x","i","n","g"," ","b","o","w","l">>,
       <<"f","o","i","l">>,
       <<"g","r","i","l","l">> >>

PRIMARY_METHODS ==
    << <<"b","a","k","e">>,
       <<"b","o","i","l">>,
       <<"s","i","m","m","e","r">>,
       <<"s","a","u","t","e">>,
       <<"s","a","u","t","e_acute">>,
       <<"f","r","y">>,
       <<"g","r","i","l","l">>,
       <<"b","r","o","i","l">>,
       <<"r","o","a","s","t">>,
       <<"s","t","e","a","m">>,
       <<"p","o","a","c","h">> >>

OTHER_METHODS ==
    << <<"c","h","o","p">>,
       <<"s","l","i","c","e">>,
       <<"m","i","n","c","e">>,
       <<"s","t","i","r">>,
       <<"m","i","x">>,
       <<"w","h","i","s","k">>,
       <<"b","e","a","t">>,
       <<"g","r","a","t","e">>,
       <<"s","p","r","i","n","k","l","e">>,
       <<"d","r","a","i","n">>,
       <<"p","o","u","r">>,
       <<"s","p","r","e","a","d">>,
       <<"l","a","y","e","r">>,
       <<"p","r","e","h","e","a","t">>,
       <<"g","r","e","a","s","e">>,
       <<"c","o","v","e","r">>,
       <<"u","n","c","o","v","e","r">> >>


\* ---------------------------------------------------------------------
\* str methods used by the engine
\* ---------------------------------------------------------------------
lower(s) == [i \in DOMAIN s |-> LowerChar(s[i])]

RECURSIVE lstrip(_)
lstrip(s) == IF s # <<>> /\ IsSpace(Head(s)) THEN lstrip(Tail(s)) ELSE s

RECURSIVE rstrip(_)
rstrip(s) ==
    IF s # <<>> /\ IsSpace(s[Len(s)]) THEN rstrip(SubSeq(s, 1, Len(s) - 1)) ELSE s

strip(s) == rstrip(lstrip(s))

\* s.split(sep) / re.split of a one-character class: every separator cuts,
\* empty parts are kept
RECURSIVE SplitAt(_, _)
SplitAt(s, seps) ==
    IF \E i \in DOMAIN s : s[i] \in seps
    THEN LET k == CHOOSE i \in DOMAIN s :
                     s[i] \in seps /\ \A j \in 1..(i - 1) : s[j] \notin seps
         IN  <<SubSeq(s, 1, k - 1)>> \o SplitAt(SubSeq(s, k + 1, Len(s)), seps)
    ELSE <<s>>

\* s.split(sep, 1)
SplitOnce(s, sep) ==
    IF \E i \in DOMAIN s : s[i] = sep
    THEN LET k == CHOOSE i \in DOMAIN s :
                     s[i] = sep /\ \A j \in 1..(i - 1) : s[j] # sep
         IN  <<SubSeq(s, 1, k - 1), SubSeq(s, k + 1, Len(s))>>
    ELSE <<s>>

\* s.split(): runs of non-whitespace characters
RECURSIVE SplitWords(_)
SplitWords(s) ==
    LET t == lstrip(s) IN
    IF t = <<>> THEN <<>>
    ELSE IF \E i \in DOMAIN t : IsSpace(t[i])
    THEN LET k == CHOOSE i \in DOMAIN t :
                     IsSpace(t[i]) /\ \A j \in 1..(i - 1) : ~IsSpace(t[j])
         IN  <<SubSeq(t, 1, k - 1)>> \o SplitWords(SubSeq(t, k + 1, Len(t)))
    ELSE <<t>>

\* sep.join(parts)
RECURSIVE Join(_, _)
Join(parts, sep) ==
    IF parts = <<>> THEN <<>>
    ELSE IF Len(parts) = 1 THEN parts[1]
    ELSE parts[1] \o sep \o Join(Tail(parts), sep)

InList(x, list) == \E i \in DOMAIN list : list[i] = x

\* [x for x in list if keep(x)]
RECURSIVE FilterNonEmpty(_)
FilterNonEmpty(list) ==
    IF list = <<>> THEN <<>>
    ELSE IF Head(list) # <<>> THEN <<Head(list)>> \o FilterNonEmpty(Tail(list))
    ELSE FilterNonEmpty(Tail(list))

\* ---------------------------------------------------------------------
\* float
\* ---------------------------------------------------------------------
RECURSIVE Gcd(_, _)
Gcd(a, b) == IF b = 0 THEN a ELSE Gcd(b, a % b)

Abs(n) == IF n < 0 THEN 0 - n ELSE n

Float(n, d) ==
    LET g == Gcd(Abs(n), d) IN <<"float", n \div g, d \div g>>

IsFloat(v) == v[1] = "float"
IsRaise(v) == v[1] = "raise"
Raise(name) == <<"raise", name>>

FloatAdd(a, b) == Float(a[2] * b[3] + b[2] * a[3], a[3] * b[3])

\* a / b of two floats: ZeroDivisionError when b is zero
FloatDiv(a, b) ==
    IF b[2] = 0 THEN Raise("ZeroDivisionError")
    ELSE IF b[2] < 0 THEN Float((0 - a[2]) * b[3], a[3] * (0 - b[2]))
    ELSE Float(a[2] * b[3], a[3] * b[2])

FloatGeqZero(v) == v[2] >= 0

RECURSIVE DigitsValue(_)
DigitsValue(ds) ==
    IF ds = <<>> THEN 0
    ELSE 10 * DigitsValue(SubSeq(ds, 1, Len(ds) - 1)) + (IndexIn(DigitChars, ds[Len(ds)]) - 1)

RECURSIVE Pow10(_)
Pow10(k) == IF k = 0 THEN 1 ELSE 10 * Pow10(k - 1)

\* float(s) for a decimal literal: optional sign, digits with at most one
\* point and at least one digit; anything else is a ValueError.  (The
\* exponent, inf, nan and underscore forms need characters that the token
\* alphabet of the model does not hold.)
DecimalValue(neg, parts) ==
    IF Len(parts) = 2
    THEN Float((IF neg THEN 0 - 1 ELSE 1) * DigitsValue(parts[1] \o parts[2]),
               Pow10(Len(parts[2])))
    ELSE Float((IF neg THEN 0 - 1 ELSE 1) * DigitsValue(parts[1]), 1)

FloatOfBody(neg, body) ==
    IF \/ \A i \in DOMAIN body : ~IsDigit(body[i])
       \/ \E i \in DOMAIN body : ~IsDigit(body[i]) /\ body[i] # "."
       \/ Cardinality({ i \in DOMAIN body : body[i] = "." }) > 1
    THEN Raise("ValueError")
    ELSE DecimalValue(neg, SplitAt(body, {"."}))

FloatOfStripped(t) ==
    IF t # <<>> /\ t[1] \in {"+", "-"}
    THEN FloatOfBody(t[1] = "-", Tail(t))
    ELSE FloatOfBody(FALSE, t)

float(s) == FloatOfStripped(strip(s))

\* ---------------------------------------------------------------------
\* parse_quantity
\* ---------------------------------------------------------------------
\* try: return float(num) / float(den); except ValueError: return None
Fraction(num, den) ==
    IF IsRaise(num) \/ IsRaise(den) THEN None ELSE FloatDiv(num, den)

\* base + frac when frac is not None; an exception of the recursive call
\* propagates
Mixed(base, frac) ==
    IF IsRaise(frac) THEN frac
    ELSE IF frac = None THEN None
    ELSE FloatAdd(IF IsRaise(base) THEN Float(0, 1) ELSE base, frac)

RECURSIVE ParseStripped(_, _, _, _)
ParseStripped(token, direct, fparts, mparts) ==
    IF IsFloat(direct) THEN direct
    \* fraction like "1/2"
    ELSE IF InList("/", token) /\ ~InList("-", token) /\ Len(fparts) = 2
    THEN Fraction(float(fparts[1]), float(fparts[2]))
    \* mixed fraction like "1-1/2"; the second part holds no "-"
    ELSE IF InList("-", token) /\ Len(mparts) = 2
    THEN Mixed(float(mparts[1]),
               ParseStripped(strip(mparts[2]), float(mparts[2]),
                             SplitAt(strip(mparts[2]), {"/"}),
                             SplitAt(strip(mparts[2]), {"-"})))
    ELSE None

parse_quantity(tok) ==
    ParseStripped(strip(tok), float(tok), SplitAt(strip(tok), {"/"}),
                  SplitAt(strip(tok), {"-"}))

\* ---------------------------------------------------------------------
\* parse_ingredient_line, parse_ingredients
\* ---------------------------------------------------------------------
\* an exception that leaves a function whose result is a dataclass
Raised(r) == "exc" \in DOMAIN r

RECURSIVE DescriptorTokens(_)
DescriptorTokens(toks) ==
    IF toks = <<>> THEN <<>>
    ELSE IF InList(lower(Head(toks)), DESCRIPTORS)
    THEN <<lower(Head(toks))>> \o DescriptorTokens(Tail(toks))
    ELSE DescriptorTokens(Tail(toks))

RECURSIVE NameTokens(_)
NameTokens(toks) ==
    IF toks = <<>> THEN <<>>
    ELSE IF InList(lower(Head(toks)), DESCRIPTORS)
    THEN NameTokens(Tail(toks))
    ELSE <<Head(toks)>> \o NameTokens(Tail(toks))

\* the fields after the comma split: descriptors vs name, preparation
IngredientOf(raw, quantity, unit, descriptor_tokens, name_tokens, prep_str) ==
    [ raw         |-> raw,
      name        |-> strip(Join(name_tokens, <<" ">>)),
      quantity    |-> quantity,
      unit        |-> unit,
      descriptor  |-> IF descriptor_tokens # <<>>
                      THEN Join(descriptor_tokens, <<" ">>) ELSE None,
      preparation |-> IF prep_str # <<>> THEN prep_str ELSE None ]

\* split by comma to separate preparation
AfterUnit(raw, quantity, unit, halves) ==
    IngredientOf(raw, quantity, unit,
                 DescriptorTokens(SplitWords(halves[1])),
                 NameTokens(SplitWords(halves[1])),
                 IF Len(halves) = 2 THEN strip(halves[2]) ELSE <<>>)

\* unit: the first token in UNITS, wherever it stands
AfterQuantityAnyUnit(raw, quantity, tokens) ==
    IF \E i \in DOMAIN tokens : InList(lower(tokens[i]), UNITS)
    THEN LET i == CHOOSE j \in DOMAIN tokens :
                      /\ InList(lower(tokens[j]), UNITS)
                      /\ \A k \in 1..(j - 1) : ~InList(lower(tokens[k]), UNITS)
         IN  AfterUnit(raw, quantity, lower(tokens[i]),
                       SplitOnce(Join(SubSeq(tokens, 1, i - 1)
                                      \o SubSeq(tokens, i + 1, Len(tokens)), <<" ">>), ","))
    ELSE AfterUnit(raw, quantity, None, SplitOnce(Join(tokens, <<" ">>), ","))

\* unit: next token if in UNITS
AfterQuantity(raw, quantity, tokens) ==
    IF tokens # <<>> /\ InList(lower(tokens[1]), UNITS)
    THEN AfterUnit(raw, quantity, lower(tokens[1]),
                   SplitOnce(Join(Tail(tokens), <<" ">>), ","))
    ELSE AfterUnit(raw, quantity, None, SplitOnce(Join(tokens, <<" ">>), ","))

\* quantity: first token
WithQuantity(raw, tokens, q) ==
    IF IsRaise(q) THEN [exc |-> q[2]]
    ELSE IF q # None THEN AfterQuantity(raw, q, Tail(tokens))
    ELSE AfterQuantity(raw, None, tokens)

WithTokens(raw, tokens) ==
    IF tokens # <<>> THEN WithQuantity(raw, tokens, parse_quantity(tokens[1]))
    ELSE AfterQuantity(raw, None, tokens)

parse_ingredient_line(line) == WithTokens(strip(line), SplitWords(strip(line)))

\* [parse_ingredient_line(line) for line in raw_ingredients], element by
\* element; the caller propagates the exception of the first line that
\* raises
parse_ingredients(raw_ingredients) ==
    [i \in DOMAIN raw_ingredients |-> parse_ingredient_line(raw_ingredients[i])]

AnyRaised(list) == \E i \in DOMAIN list : Raised(list[i])
FirstRaised(list) ==
    list[CHOOSE i \in DOMAIN list :
             Raised(list[i]) /\ \A j \in 1..(i - 1) : ~Raised(list[j])].exc

\* ---------------------------------------------------------------------
\* split_into_atomic_steps
\* ---------------------------------------------------------------------
\* the clauses kept untrimmed
split_into_atomic_steps_untrimmed(step_text) ==
    LET parts == SplitAt(step_text, {".", ";"})
    IN  SelectSeq(parts, LAMBDA p : strip(p) # <<>>)

split_into_atomic_steps(step_text) ==
    LET parts == SplitAt(step_text, {".", ";"})
    IN  FilterNonEmpty([i \in DOMAIN parts |-> strip(parts[i])])

\* ---------------------------------------------------------------------
\* find_items_in_text, extract_time, extract_temperature
\* ---------------------------------------------------------------------
\* \b between positions p and p + 1 of t (p = 0: before the text)
WordBoundary(t, p) ==
    (p >= 1 /\ IsWordChar(t[p])) # (p + 1 <= Len(t) /\ IsWordChar(t[p + 1]))

\* re.search(r"\b" + re.escape(word) + r"\b", t)
SearchWord(word, t) ==
    \E i \in 1..(Len(t) - Len(word) + 1) :
        /\ SubSeq(t, i, i + Len(word) - 1) = word
        /\ WordBoundary(t, i - 1)
        /\ WordBoundary(t, i + Len(word) - 1)

RECURSIVE FoundIn(_, _)
FoundIn(text_lower, vocab) ==
    IF vocab = <<>> THEN <<>>
    ELSE IF SearchWord(Head(vocab), text_lower)
    THEN <<Head(vocab)>> \o FoundIn(text_lower, Tail(vocab))
    ELSE FoundIn(text_lower, Tail(vocab))

find_items_in_text(text, vocab) == FoundIn(lower(text), vocab)

\* length of the longest run of characters from position i on that satisfy
\* the class (a greedy \d+ or \s*)
RECURSIVE DigitRun(_, _)
DigitRun(t, i) == IF i <= Len(t) /\ IsDigit(t[i]) THEN 1 + DigitRun(t, i + 1) ELSE 0

RECURSIVE SpaceRun(_, _)
SpaceRun(t, i) == IF i <= Len(t) /\ IsSpace(t[i]) THEN 1 + SpaceRun(t, i + 1) ELSE 0

\* the literal, ignoring case, at position i of t
LiteralAt(lit, t, i) ==
    i + Len(lit) - 1 <= Len(t) /\ lower(SubSeq(t, i, i + Len(lit) - 1)) = lit

\* the alternatives of (minutes?|mins?|hours?|hrs?) in the order the regex
\* engine tries them
TimeUnits ==
    << <<"m","i","n","u","t","e","s">>, <<"m","i","n","u","t","e">>,
       <<"m","i","n","s">>, <<"m","i","n">>,
       <<"h","o","u","r","s">>, <<"h","o","u","r">>,
       <<"h","r","s">>, <<"h","r">> >>

\* last position of the match of (minutes?|mins?|hours?|hrs?) at i, 0: none
TimeUnitEnd(t, i) ==
    IF \E k \in DOMAIN TimeUnits : LiteralAt(TimeUnits[k], t, i)
    THEN i - 1 + Len(TimeUnits[CHOOSE k \in DOMAIN TimeUnits :
                        /\ LiteralAt(TimeUnits[k], t, i)
                        /\ \A j \in 1..(k - 1) : ~LiteralAt(TimeUnits[j], t, i)])
    ELSE 0

\* last position of the match of (\d+)\s*(minutes?|mins?|hours?|hrs?) that
\* starts at i, 0: none.  Giving back a digit or a space leaves a digit or a
\* space where the unit must start, so only the greedy runs can match.
TimeMatchEnd(t, i) ==
    IF DigitRun(t, i) = 0 THEN 0
    ELSE TimeUnitEnd(t, i + DigitRun(t, i) + SpaceRun(t, i + DigitRun(t, i)))

\* last position of the match of (degrees\s+)?(F|C) at i, 0: none
DegreesEndSpaced(t, i) ==
    IF /\ LiteralAt(<<"d","e","g","r","e","e","s">>, t, i)
       /\ SpaceRun(t, i + 7) > 0
       /\ i + 7 + SpaceRun(t, i + 7) <= Len(t)
       /\ lower(<<t[i + 7 + SpaceRun(t, i + 7)]>>) \in {<<"f">>, <<"c">>}
    THEN i + 7 + SpaceRun(t, i + 7)
    ELSE IF i <= Len(t) /\ lower(<<t[i]>>) \in {<<"f">>, <<"c">>} THEN i
    ELSE 0

\* last position of the match of (degrees\s*)?(F|C) at i, 0: none
DegreesEnd(t, i) ==
    IF /\ LiteralAt(<<"d","e","g","r","e","e","s">>, t, i)
       /\ i + 7 + SpaceRun(t, i + 7) <= Len(t)
       /\ lower(<<t[i + 7 + SpaceRun(t, i + 7)]>>) \in {<<"f">>, <<"c">>}
    THEN i + 7 + SpaceRun(t, i + 7)
    ELSE IF i <= Len(t) /\ lower(<<t[i]>>) \in {<<"f">>, <<"c">>} THEN i
    ELSE 0

\* last position of the match of (\d+)\s*(degrees\s*)?(F|C) that starts at
\* i, 0: none
TemperatureMatchEnd(t, i) ==
    IF DigitRun(t, i) = 0 THEN 0
    ELSE DegreesEnd(t, i + DigitRun(t, i) + SpaceRun(t, i + DigitRun(t, i)))

\* the start of the leftmost match
FirstOf(starts) == CHOOSE i \in starts : \A j \in starts : i <= j

TimeStarts(text) == { i \in DOMAIN text : TimeMatchEnd(text, i) > 0 }
TimeGroup(text, i) == SubSeq(text, i, TimeMatchEnd(text, i))

extract_time(text) ==
    IF TimeStarts(text) # {}
    THEN {<<"duration", TimeGroup(text, FirstOf(TimeStarts(text)))>>}
    ELSE {}

TemperatureStarts(text) == { i \in DOMAIN text : TemperatureMatchEnd(text, i) > 0 }
TemperatureGroup(text, i) == SubSeq(text, i, TemperatureMatchEnd(text, i))

extract_temperature(text) ==
    IF TemperatureStarts(text) # {}
    THEN {<<"oven", TemperatureGroup(text, FirstOf(TemperatureStarts(text)))>>}
    ELSE {}

\* ---------------------------------------------------------------------
\* Step, dict
\* ---------------------------------------------------------------------
\* a dict is the set of its <<key, value>> items
HasKey(d, k) == \E item \in d : item[1] = k
Get(d, k) == (CHOOSE item \in d : item[1] = k)[2]

Step(step_number, description, used, tools, methods, time, temperature, action, objects, modifiers, context) ==
    [ step_number |-> step_number, description |-> description,
      ingredients |-> used, tools |-> tools, methods |-> methods,
      time |-> time, temperature |-> temperature, action |-> action,
      objects |-> objects, modifiers |-> modifiers, context |-> context ]

\* ---------------------------------------------------------------------
\* collect_recipe_tools_and_methods
\* ---------------------------------------------------------------------
\* a < b of two str: by code point, a proper prefix first
StrLess(a, b) ==
    \E k \in 1..(Len(a) + 1) :
        /\ \A i \in 1..(k - 1) : i <= Len(b) /\ a[i] = b[i]
        /\ k <= Len(b)
        /\ (k = Len(a) + 1 \/ Ord(a[k]) < Ord(b[k]))

\* sorted(S) of a set of str
RECURSIVE sorted(_)
sorted(S) ==
    IF S = {} THEN <<>>
    ELSE <<CHOOSE x \in S : \A y \in S : y = x \/ StrLess(x, y)>>
         \o sorted(S \ {CHOOSE x \in S : \A y \in S : y = x \/ StrLess(x, y)})

\* tools_set after the loop: update with s.tools for every s
RECURSIVE tools_set(_)
tools_set(steps) ==
    IF steps = <<>> THEN {}
    ELSE tools_set(SubSeq(steps, 1, Len(steps) - 1)) \cup Range(steps[Len(steps)].tools)

RECURSIVE methods_set(_)
methods_set(steps) ==
    IF steps = <<>> THEN {}
    ELSE methods_set(SubSeq(steps, 1, Len(steps) - 1)) \cup Range(steps[Len(steps)].methods)

\* list(dict.fromkeys(list)): first occurrences, in order
RECURSIVE FromKeys(_)
FromKeys(list) ==
    IF list = <<>> THEN <<>>
    ELSE IF InList(list[Len(list)], SubSeq(list, 1, Len(list) - 1))
    THEN FromKeys(SubSeq(list, 1, Len(list) - 1))
    ELSE FromKeys(SubSeq(list, 1, Len(list) - 1)) \o <<list[Len(list)]>>

RECURSIVE AllTools(_)
AllTools(steps) ==
    IF steps = <<>> THEN <<>> ELSE Head(steps).tools \o AllTools(Tail(steps))

RECURSIVE AllMethods(_)
AllMethods(steps) ==
    IF steps = <<>> THEN <<>> ELSE Head(steps).methods \o AllMethods(Tail(steps))

\* the two lists deduplicated in first-seen order, not sorted
collect_first_seen(steps) ==
    <<FromKeys(AllTools(steps)), FromKeys(AllMethods(steps))>>

collect_recipe_tools_and_methods(steps) ==
    <<sorted(tools_set(steps)), sorted(methods_set(steps))>>

\* ---------------------------------------------------------------------
\* State
\* ---------------------------------------------------------------------
VARIABLES
    \* a single call of one function
    fn,     \* the function under call
    arg,    \* its argument
    ret,    \* <<>> while the call is pending, then <<result>>
    \* parse_recipe_from_url, from the JSON-LD data on
    pc,                 \* the statement the call is at
    instructions,       \* data["recipeInstructions"]
    raw_ingredients,    \* data["recipeIngredient"]
    steps_raw,          \* parse_allrecipes_basic: the instruction strings
    ingredients,        \* parse_ingredients(base["ingredients_raw"])
    \* locals of build_steps
    ingredient_names,
    steps,
    current_oven_temp,
    step_counter,
    raw_index,          \* position of raw_step in steps_raw
    atomic_texts,       \* the clauses of raw_step not yet processed
    \* the outcome of the call: <<>>, <<"return", Recipe>> or <<"raise", name>>
    outcome,
    \* history of the invocations
    run,                \* number of the invocation
    primary,            \* input of the first invocation
    others,             \* number of invocations on another input so far
    reference,          \* <<>> or <<outcome of the first finished invocation on primary>>
    \* RecipeBot
    recipe,             \* self.recipe: <<>> for None, else <<Recipe>>
    current_step_idx,   \* self.current_step_idx
    before              \* <<recipe, current_step_idx>> when the call under way began

callVars == <<fn, arg, ret>>
inputVars == <<instructions, raw_ingredients>>
localVars == <<ingredient_names, steps, current_oven_temp, step_counter, raw_index, atomic_texts>>
historyVars == <<run, primary, others, reference>>
engineVars == <<pc, inputVars, steps_raw, ingredients, localVars, outcome, historyVars>>
botVars == <<recipe, current_step_idx, before>>
vars == <<callVars, engineVars, botVars>>

\* the engine at rest, while a single function is called
EngineIdle ==
    /\ pc = "idle"
    /\ instructions = <<>> /\ raw_ingredients = <<>>
    /\ steps_raw = <<>> /\ ingredients = <<>>
    /\ ingredient_names = <<>> /\ steps = <<>>
    /\ current_oven_temp = None /\ step_counter = 0
    /\ raw_index = 0 /\ atomic_texts = <<>>
    /\ outcome = <<>>
    /\ run = 0 /\ primary = <<>> /\ others = 0 /\ reference = <<>>

\* RecipeBot.__init__, and the bot while it is not in use
BotIdle == recipe = <<>> /\ current_step_idx = 0 /\ before = <<>>

\* all str of at most n characters over the character set cs
Strings(cs, n) == UNION { [1..k -> cs] : k \in 0..n }

\* ---------------------------------------------------------------------
\* parse_quantity on every token
\* ---------------------------------------------------------------------
MaxTokLen == 5
TokChars == {"0", "1", "/", "-", ".", "x"}

InitQuantity ==
    /\ EngineIdle /\ BotIdle
    /\ fn = "parse_quantity"
    /\ arg \in Strings(TokChars, MaxTokLen)
    /\ ret = <<>>

CallParseQuantity ==
    /\ fn = "parse_quantity"
    /\ ret = <<>>
    /\ ret' = <<parse_quantity(arg)>>
    /\ UNCHANGED <<fn, arg, engineVars, botVars>>

NextQuantity == CallParseQuantity
SpecQuantity == InitQuantity /\ [][NextQuantity]_vars

\* ---------------------------------------------------------------------
\* parse_ingredient_line on lines of a few words
\* ---------------------------------------------------------------------
MaxWords == 3
Words ==
    { <<"2">>,
      <<"1","/","2">>,
      <<"1","-","1","/","2">>,
      <<"1","/","0">>,
      <<"-","2">>,
      <<"C","u","p","s">>,
      <<"t","b","s","p">>,
      <<"L","a","r","g","e">>,
      <<"f","l","o","u","r">>,
      <<"s","u","g","a","r",",">>,
      <<"s","i","f","t","e","d">>,
      <<",">>,
      <<" ">> }

InitIngredient ==
    /\ EngineIdle /\ BotIdle
    /\ fn = "parse_ingredient_line"
    /\ \E k \in 0..MaxWords : \E ws \in [1..k -> Words] : arg = Join(ws, <<" ">>)
    /\ ret = <<>>

CallParseIngredientLine ==
    /\ fn = "parse_ingredient_line"
    /\ ret = <<>>
    /\ ret' = <<parse_ingredient_line(arg)>>
    /\ UNCHANGED <<fn, arg, engineVars, botVars>>

NextIngredient == CallParseIngredientLine
SpecIngredient == InitIngredient /\ [][NextIngredient]_vars

\* ---------------------------------------------------------------------
\* split_into_atomic_steps on every short instruction
\* ---------------------------------------------------------------------
MaxTextLen == 5
TextChars == {"a", " ", "\n", ".", ";"}

InitSplit ==
    /\ EngineIdle /\ BotIdle
    /\ fn = "split_into_atomic_steps"
    /\ arg \in Strings(TextChars, MaxTextLen)
    /\ ret = <<>>

CallSplit ==
    /\ fn = "split_into_atomic_steps"
    /\ ret = <<>>
    /\ ret' = <<split_into_atomic_steps(arg)>>
    /\ UNCHANGED <<fn, arg, engineVars, botVars>>

NextSplit == CallSplit
SpecSplit == InitSplit /\ [][NextSplit]_vars

\* ---------------------------------------------------------------------
\* collect_recipe_tools_and_methods on short step lists
\* ---------------------------------------------------------------------
MaxAggSteps == 2
SampleToolLists ==
    { <<>>,
      <<<<"p","o","t">>>>,
      <<<<"p","o","t">>, <<"p","a","n">>>>,
      <<<<"b","a","k","i","n","g"," ","s","h","e","e","t">>, <<"b","a","k","i","n","g"," ","d","i","s","h">>>> }
SampleMethodLists ==
    { <<>>,
      <<<<"s","a","u","t","e_acute">>>>,
      <<<<"s","a","u","t","e_acute">>, <<"s","a","u","t","e">>>> }

\* a Step as build_steps fills it from its tools and methods
SampleStep(n, tools, methods) ==
    Step(n, <<>>, <<>>, tools, methods, {}, {},
         IF methods # <<>> THEN methods[1] ELSE None, <<>>,
         IF tools # <<>> THEN {<<"tools", Join(tools, <<",", " ">>)>>} ELSE {}, {})

InitCollect ==
    /\ EngineIdle /\ BotIdle
    /\ fn = "collect_recipe_tools_and_methods"
    /\ \E n \in 0..MaxAggSteps :
          \E ts \in [1..n -> SampleToolLists] :
             \E ms \in [1..n -> SampleMethodLists] :
                arg = [i \in 1..n |-> SampleStep(i, ts[i], ms[i])]
    /\ ret = <<>>

CallCollect ==
    /\ fn = "collect_recipe_tools_and_methods"
    /\ ret = <<>>
    /\ ret' = <<collect_recipe_tools_and_methods(arg)>>
    /\ UNCHANGED <<fn, arg, engineVars, botVars>>

NextCollect == CallCollect
SpecCollect == InitCollect /\ [][NextCollect]_vars

\* ---------------------------------------------------------------------
\* extract_temperature on texts of a few pieces
\* ---------------------------------------------------------------------
MaxPieces == 4
TemperaturePieces ==
    { <<"3">>, <<"5","0">>, <<" ">>, <<"d","e","g","r","e","e","s">>, <<"D","e","g","r","e","e","s"," ">>, <<"F">>, <<"c">>, <<"x">> }

InitTemperature ==
    /\ EngineIdle /\ BotIdle
    /\ fn = "extract_temperature"
    /\ \E k \in 0..MaxPieces : \E ps \in [1..k -> TemperaturePieces] : arg = Join(ps, <<>>)
    /\ ret = <<>>

CallExtractTemperature ==
    /\ fn = "extract_temperature"
    /\ ret = <<>>
    /\ ret' = <<extract_temperature(arg)>>
    /\ UNCHANGED <<fn, arg, engineVars, botVars>>

NextTemperature == CallExtractTemperature
SpecTemperature == InitTemperature /\ [][NextTemperature]_vars

\* ---------------------------------------------------------------------
\* build_steps
\* ---------------------------------------------------------------------
\* ingredient_names = [ing.name.lower() for ing in ingredients]
IngredientNames(ings) == [i \in DOMAIN ings |-> lower(ings[i].name)]

\* the names found in the clause, one append per entry of ingredient_names
RECURSIVE UsedIngredients(_, _)
UsedIngredients(text_lower, names) ==
    IF names = <<>> THEN <<>>
    ELSE IF Head(names) # <<>> /\ SearchWord(Head(names), text_lower)
    THEN <<Head(names)>> \o UsedIngredients(text_lower, Tail(names))
    ELSE UsedIngredients(text_lower, Tail(names))

\* current_oven_temp after the clause
OvenAfter(oven, temp_info) ==
    IF HasKey(temp_info, "oven") THEN Get(temp_info, "oven") ELSE oven

\* context: the carried temperature, if it is truthy
ContextOf(oven) ==
    IF oven # None /\ oven # <<>> THEN {<<"oven_temperature", oven>>} ELSE {}

StepOf(counter, text, tools, methods, time_info, temp_info, used_ingredients, oven) ==
    Step(counter, text, used_ingredients, tools, methods, time_info, temp_info,
         IF methods # <<>> THEN methods[1] ELSE None,
         used_ingredients,
         IF tools # <<>> THEN {<<"tools", Join(tools, <<",", " ">>)>>} ELSE {},
         ContextOf(oven))

\* the Step of one clause
AnnotatedStep(counter, text, names, oven, temp_info) ==
    StepOf(counter, text,
           find_items_in_text(text, TOOLS),
           FromKeys(find_items_in_text(text, PRIMARY_METHODS)
                    \o find_items_in_text(text, OTHER_METHODS)),
           extract_time(text), temp_info,
           UsedIngredients(lower(text), names),
           OvenAfter(oven, temp_info))

\* ---------------------------------------------------------------------
\* parse_recipe_from_url
\* ---------------------------------------------------------------------
\* an entry of recipeInstructions: a str, a dict with its "text" ("" when
\* the key is missing) or another JSON value
StrEntry(text) == [kind |-> "str", text |-> text]
DictEntry(text) == [kind |-> "dict", text |-> text]
NumberEntry == [kind |-> "number", text |-> <<>>]

\* steps_raw of parse_allrecipes_basic
RECURSIVE StepsRaw(_)
StepsRaw(insts) ==
    IF insts = <<>> THEN <<>>
    ELSE IF Head(insts).kind = "dict" /\ Head(insts).text # <<>>
    THEN <<strip(Head(insts).text)>> \o StepsRaw(Tail(insts))
    ELSE IF Head(insts).kind = "str" /\ strip(Head(insts).text) # <<>>
    THEN <<strip(Head(insts).text)>> \o StepsRaw(Tail(insts))
    ELSE StepsRaw(Tail(insts))

SampleTitle == <<"C","a","k","e">>
SampleUrl == <<"h","t","t","p","s",":","/","/","a">>

Recipe(title, url, ings, summary, step_list) ==
    [ title |-> title, url |-> url, ingredients |-> ings,
      tools |-> summary[1], methods |-> summary[2], steps |-> step_list ]

\* the outcome recorded for the first finished invocation on primary
Recorded(result) ==
    IF reference = <<>> /\ <<instructions, raw_ingredients>> = primary
    THEN <<result>> ELSE reference

\* base = parse_allrecipes_basic(html), from the instructions loop on
ParseAllrecipesBasic ==
    /\ pc = "parse_allrecipes_basic"
    /\ steps_raw' = StepsRaw(instructions)
    /\ pc' = "parse_ingredients"
    /\ UNCHANGED <<callVars, botVars, inputVars, ingredients, localVars, outcome, historyVars>>

\* ingredients = parse_ingredients(base["ingredients_raw"])
ParseIngredients ==
    /\ pc = "parse_ingredients"
    /\ \E parsed \in {parse_ingredients(raw_ingredients)} :
          IF AnyRaised(parsed)
          THEN /\ outcome' = Raise(FirstRaised(parsed))
               /\ reference' = Recorded(Raise(FirstRaised(parsed)))
               /\ pc' = "done"
               /\ UNCHANGED ingredients
          ELSE /\ ingredients' = parsed
               /\ pc' = "build_steps"
               /\ UNCHANGED <<outcome, reference>>
    /\ UNCHANGED <<callVars, botVars, inputVars, steps_raw, localVars, run, primary, others>>

\* build_steps: the statements before the loop; the temperature of an
\* earlier call is kept
BuildStepsEnterStale ==
    /\ pc = "build_steps"
    /\ steps' = <<>>
    /\ ingredient_names' = IngredientNames(ingredients)
    /\ step_counter' = 1
    /\ raw_index' = 0
    /\ atomic_texts' = <<>>
    /\ pc' = "loop"
    /\ UNCHANGED <<callVars, botVars, inputVars, steps_raw, ingredients, current_oven_temp,
                   outcome, historyVars>>

\* build_steps: the statements before the loop
BuildStepsEnter ==
    /\ pc = "build_steps"
    /\ steps' = <<>>
    /\ ingredient_names' = IngredientNames(ingredients)
    /\ current_oven_temp' = None
    /\ step_counter' = 1
    /\ raw_index' = 0
    /\ atomic_texts' = <<>>
    /\ pc' = "loop"
    /\ UNCHANGED <<callVars, botVars, inputVars, steps_raw, ingredients, outcome, historyVars>>

\* the outer loop takes the next raw_step and restarts the numbering
NextRawStepRenumber ==
    /\ pc = "loop"
    /\ atomic_texts = <<>>
    /\ raw_index < Len(steps_raw)
    /\ raw_index' = raw_index + 1
    /\ atomic_texts' = split_into_atomic_steps(steps_raw[raw_index + 1])
    /\ step_counter' = 1
    /\ UNCHANGED <<callVars, botVars, pc, inputVars, steps_raw, ingredients, ingredient_names,
                   steps, current_oven_temp, outcome, historyVars>>

\* the outer loop takes the next raw_step and forgets the temperature
NextRawStepForget ==
    /\ pc = "loop"
    /\ atomic_texts = <<>>
    /\ raw_index < Len(steps_raw)
    /\ raw_index' = raw_index + 1
    /\ atomic_texts' = split_into_atomic_steps(steps_raw[raw_index + 1])
    /\ current_oven_temp' = None
    /\ UNCHANGED <<callVars, botVars, pc, inputVars, steps_raw, ingredients, ingredient_names,
                   steps, step_counter, outcome, historyVars>>

\* for raw_step in steps_raw: atomic_texts = split_into_atomic_steps(raw_step)
NextRawStep ==
    /\ pc = "loop"
    /\ atomic_texts = <<>>
    /\ raw_index < Len(steps_raw)
    /\ raw_index' = raw_index + 1
    /\ atomic_texts' = split_into_atomic_steps(steps_raw[raw_index + 1])
    /\ UNCHANGED <<callVars, botVars, pc, inputVars, steps_raw, ingredients, ingredient_names,
                   steps, current_oven_temp, step_counter, outcome, historyVars>>

\* the loop body appends a Step only for a clause with an annotation
ProcessClauseSkipPlain ==
    /\ pc = "loop"
    /\ atomic_texts # <<>>
    /\ \E temp_info \in {extract_temperature(Head(atomic_texts))} :
          /\ current_oven_temp' = OvenAfter(current_oven_temp, temp_info)
          /\ \E step \in {AnnotatedStep(step_counter, Head(atomic_texts),
                                        ingredient_names, current_oven_temp, temp_info)} :
                IF /\ step.tools = <<>> /\ step.methods = <<>> /\ step.ingredients = <<>>
                   /\ step.time = {} /\ step.temperature = {}
                THEN UNCHANGED <<steps, step_counter>>
                ELSE /\ steps' = Append(steps, step)
                     /\ step_counter' = step_counter + 1
    /\ atomic_texts' = Tail(atomic_texts)
    /\ UNCHANGED <<callVars, botVars, pc, inputVars, steps_raw, ingredients, ingredient_names,
                   raw_index, outcome, historyVars>>

\* for text in atomic_texts: one pass of the loop body
ProcessClause ==
    /\ pc = "loop"
    /\ atomic_texts # <<>>
    /\ \E temp_info \in {extract_temperature(Head(atomic_texts))} :
          /\ current_oven_temp' = OvenAfter(current_oven_temp, temp_info)
          /\ steps' = Append(steps,
                             AnnotatedStep(step_counter, Head(atomic_texts),
                                           ingredient_names, current_oven_temp, temp_info))
    /\ step_counter' = step_counter + 1
    /\ atomic_texts' = Tail(atomic_texts)
    /\ UNCHANGED <<callVars, botVars, pc, inputVars, steps_raw, ingredients, ingredient_names,
                   raw_index, outcome, historyVars>>

\* return steps; tools, methods = collect_recipe_tools_and_methods(steps);
\* return Recipe(...)
ReturnRecipe ==
    /\ pc = "loop"
    /\ atomic_texts = <<>>
    /\ raw_index = Len(steps_raw)
    /\ \E result \in {Recipe(SampleTitle, SampleUrl, ingredients,
                             collect_recipe_tools_and_methods(steps), steps)} :
          /\ outcome' = <<"return", result>>
          /\ reference' = Recorded(<<"return", result>>)
    /\ pc' = "done"
    /\ UNCHANGED <<callVars, botVars, inputVars, steps_raw, ingredients, localVars, run, primary, others>>

\* ---------------------------------------------------------------------
\* Invocations of parse_recipe_from_url
\* ---------------------------------------------------------------------
MaxInstructions == 2
MaxRuns == 3

SampleInstructions ==
    { StrEntry(<<"P","r","e","h","e","a","t"," ","o","v","e","n"," ","t","o"," ","3","5","0"," ","d","e","g","r","e","e","s"," ","F","."," ","M","i","x"," ","S","u","g","a","r",";"," ","b","a","k","e">>),
      StrEntry(<<"B","a","k","e"," ","t","h","e"," ","c","a","k","e"," ","3","0"," ","m","i","n","."," ","S","e","r","v","e">>),
      StrEntry(<<"B","r","o","i","l"," ","a","t"," ","5","0","0","F">>),
      StrEntry(<<" ","."," ",";">>),
      DictEntry(<<"S","t","i","r"," ","s","u","g","a","r",".">>),
      NumberEntry }

SampleIngredientLists ==
    { <<>>,
      <<<<"1"," ","c","u","p"," ","S","u","g","a","r">>, <<"2"," ","t","b","s","p"," ","s","u","g","a","r",","," ","s","i","f","t","e","d">>>>,
      <<<<",">>, <<"1"," ","c","u","p"," ","S","u","g","a","r">>>>,
      <<<<"2"," ","t","b","s","p"," ","s","u","g","a","r",","," ","s","i","f","t","e","d">>, <<"1","/","0"," ","f","l","o","u","r">>>> }

\* the inputs of the invocations that run between two invocations on primary
OtherInputs ==
    { << <<StrEntry(<<"B","r","o","i","l"," ","a","t"," ","5","0","0","F">>), StrEntry(<<"B","a","k","e"," ","t","h","e"," ","c","a","k","e"," ","3","0"," ","m","i","n","."," ","S","e","r","v","e">>)>>, <<<<"1"," ","c","u","p"," ","S","u","g","a","r">>>> >>,
      << <<StrEntry(<<"B","a","k","e"," ","t","h","e"," ","c","a","k","e"," ","3","0"," ","m","i","n","."," ","S","e","r","v","e">>)>>, <<<<"1","/","0"," ","f","l","o","u","r">>>> >> }

Init ==
    /\ fn = "parse_recipe_from_url" /\ arg = <<>> /\ ret = <<>>
    /\ pc = "parse_allrecipes_basic"
    /\ \E n \in 0..MaxInstructions : instructions \in [1..n -> SampleInstructions]
    /\ raw_ingredients \in SampleIngredientLists
    /\ primary = <<instructions, raw_ingredients>>
    /\ steps_raw = <<>> /\ ingredients = <<>>
    /\ ingredient_names = <<>> /\ steps = <<>>
    /\ current_oven_temp = None /\ step_counter = 0
    /\ raw_index = 0 /\ atomic_texts = <<>>
    /\ outcome = <<>>
    /\ run = 1 /\ others = 0 /\ reference = <<>>
    /\ BotIdle

\* the caller invokes parse_recipe_from_url again
Invoke ==
    /\ pc = "done"
    /\ run < MaxRuns
    /\ run' = run + 1
    /\ \E input \in {primary} \cup OtherInputs :
          /\ instructions' = input[1]
          /\ raw_ingredients' = input[2]
          /\ others' = IF input = primary THEN others ELSE others + 1
    /\ outcome' = <<>>
    /\ pc' = "parse_allrecipes_basic"
    /\ UNCHANGED <<callVars, botVars, steps_raw, ingredients, localVars, primary, reference>>

Next ==
    \/ ParseAllrecipesBasic
    \/ ParseIngredients
    \/ BuildStepsEnter
    \/ NextRawStep
    \/ ProcessClause
    \/ ReturnRecipe
    \/ Invoke

Spec == Init /\ [][Next]_vars

\* ---------------------------------------------------------------------
\* RecipeBot (interface.py): str helpers
\* ---------------------------------------------------------------------
\* sub in s
Contains(sub, s) ==
    \E i \in 1..(Len(s) - Len(sub) + 1) : SubSeq(s, i, i + Len(sub) - 1) = sub

\* s.startswith(prefix)
StartsWith(s, prefix) ==
    Len(prefix) <= Len(s) /\ SubSeq(s, 1, Len(prefix)) = prefix

\* any(p in norm for p in patterns)
AnyIn(patterns, norm) == \E k \in DOMAIN patterns : Contains(patterns[k], norm)

\* string.punctuation ("backtick" is the grave accent)
Punctuation ==
    { "!", "\"", "#", "$", "%", "&", "'", "(", ")", "*", "+", ",", "-", ".", "/",
      ":", ";", "<", "=", ">", "?", "@", "[", "\\", "]", "^", "_", "backtick", "{", "|",
      "}", "~" }

NotPunctuation(c) == c \notin Punctuation

\* lowercase, remove punctuation, collapse whitespace
normalize(text) ==
    Join(SplitWords(SelectSeq(lower(text), NotPunctuation)), <<" ">>)

\* ---------------------------------------------------------------------
\* RecipeBot: intent helpers
\* ---------------------------------------------------------------------
is_next_command(norm) ==
    AnyIn(<< <<"n","e","x","t"," ","s","t","e","p">>,
       <<"g","o"," ","t","o"," ","t","h","e"," ","n","e","x","t"," ","s","t","e","p">>,
       <<"g","o"," ","t","o"," ","n","e","x","t"," ","s","t","e","p">>,
       <<"n","e","x","t">>,
       <<"c","o","n","t","i","n","u","e">>,
       <<"w","h","a","t","'","s"," ","n","e","x","t">>,
       <<"w","h","a","t","s"," ","n","e","x","t">>,
       <<"w","h","a","t"," ","i","s"," ","n","e","x","t">> >>, norm)

is_back_command(norm) ==
    AnyIn(<< <<"g","o"," ","b","a","c","k"," ","o","n","e"," ","s","t","e","p">>,
       <<"g","o"," ","b","a","c","k"," ","a"," ","s","t","e","p">>,
       <<"g","o"," ","b","a","c","k">>,
       <<"p","r","e","v","i","o","u","s"," ","s","t","e","p">>,
       <<"p","r","e","v","i","o","u","s">>,
       <<"b","a","c","k">> >>, norm)

is_repeat_command(norm) ==
    AnyIn(<< <<"r","e","p","e","a","t"," ","p","l","e","a","s","e">>,
       <<"r","e","p","e","a","t"," ","t","h","a","t">>,
       <<"s","a","y"," ","t","h","a","t"," ","a","g","a","i","n">>,
       <<"a","g","a","i","n">>,
       <<"r","e","p","e","a","t">> >>, norm)

is_time_question(norm) ==
    \/ Contains(<<"h","o","w"," ","l","o","n","g">>, norm) \/ Contains(<<"f","o","r"," ","h","o","w"," ","l","o","n","g">>, norm)
    \/ Contains(<<"c","o","o","k","i","n","g"," ","t","i","m","e">>, norm) \/ Contains(<<"b","a","k","i","n","g"," ","t","i","m","e">>, norm)
    \/ /\ Contains(<<"t","i","m","e">>, norm)
       /\ \/ Contains(<<"c","o","o","k">>, norm) \/ Contains(<<"b","a","k","e">>, norm)
          \/ Contains(<<"s","i","m","m","e","r">>, norm)

is_temp_question(norm) ==
    \/ /\ Contains(<<"t","e","m","p","e","r","a","t","u","r","e">>, norm) \/ Contains(<<"t","e","m","p">>, norm)
       /\ Contains(<<"o","v","e","n">>, norm) \/ Contains(<<"b","a","k","e">>, norm)
    \/ Contains(<<"h","o","w"," ","h","o","t">>, norm) /\ Contains(<<"o","v","e","n">>, norm)
    \/ Contains(<<"b","a","k","e"," ","a","t">>, norm) \/ Contains(<<"b","a","k","e","d"," ","a","t">>, norm)

is_quantity_question(norm) ==
    \/ Contains(<<"h","o","w"," ","m","u","c","h">>, norm) \/ Contains(<<"h","o","w"," ","m","a","n","y">>, norm)
    \/ Contains(<<"a","m","o","u","n","t"," ","o","f">>, norm) \/ Contains(<<"q","u","a","n","t","i","t","y"," ","o","f">>, norm)

\* ---------------------------------------------------------------------
\* RecipeBot: steps and answers.  A result is <<"return", message>> or
\* <<"raise", exception>>; a message built from the recipe is named by its
\* fixed words.
\* ---------------------------------------------------------------------
\* get_current_step: <<"return", Step>> or <<"raise", message of ValueError>>
get_current_step(rec, idx) ==
    IF rec = <<>> THEN <<"raise", "No recipe loaded. Please load a recipe first.">>
    ELSE IF rec[1].steps = <<>> THEN <<"raise", "Recipe has no steps.">>
    ELSE IF idx >= Len(rec[1].steps) THEN <<"raise", "Step index out of range.">>
    ELSE <<"return", rec[1].steps[idx + 1]>>

\* try: step = self.get_current_step() ... except ValueError as e: str(e)
ShownStep(current) ==
    IF current[1] = "raise" THEN <<"return", current[2]>>
    ELSE <<"return", "The {ordinal} step is: {description}">>

show_current_step(rec, idx) == ShownStep(get_current_step(rec, idx))

\* the dict has the key with a truthy value
Truthy(d, k) == HasKey(d, k) /\ Get(d, k) # <<>>

TimeAnswer(rec, current) ==
    IF current[1] = "raise" THEN <<"return", current[2]>>
    ELSE IF Truthy(current[2].time, "duration")
    THEN <<"return", "In this step, the time is {duration}.">>
    ELSE IF \E i \in DOMAIN rec[1].steps :
               /\ Truthy(rec[1].steps[i].time, "duration")
               /\ Range(current[2].methods) \cap Range(rec[1].steps[i].methods) # {}
    THEN <<"return", "For {verbs} earlier, the recipe says: {duration}.">>
    ELSE IF \E i \in DOMAIN rec[1].steps : Truthy(rec[1].steps[i].time, "duration")
    THEN <<"return", "Earlier, the recipe says: {duration}.">>
    ELSE <<"return", "The recipe does not specify a clear time here.">>

answer_time_question(rec, idx) ==
    IF rec = <<>> THEN <<"return", "No recipe loaded. Please load a recipe first.">>
    ELSE TimeAnswer(rec, get_current_step(rec, idx))

TempAnswer(rec, current) ==
    IF current[1] = "raise" THEN <<"return", current[2]>>
    ELSE IF HasKey(current[2].temperature, "oven")
    THEN <<"return", "In this step, the oven should be at {oven}.">>
    ELSE IF HasKey(current[2].context, "oven_temperature")
    THEN <<"return", "The oven should be at {oven_temperature}.">>
    ELSE IF \E i \in DOMAIN rec[1].steps : HasKey(rec[1].steps[i].temperature, "oven")
    THEN <<"return", "The recipe uses an oven temperature of {oven}.">>
    ELSE <<"return", "I couldn't find an oven temperature in the recipe.">>

answer_temp_question(rec, idx) ==
    IF rec = <<>> THEN <<"return", "No recipe loaded. Please load a recipe first.">>
    ELSE TempAnswer(rec, get_current_step(rec, idx))

\* the ingredients whose name is in the question, by position
Mentioned(ings, norm) ==
    { i \in DOMAIN ings :
        lower(ings[i].name) # <<>> /\ SearchWord(lower(ings[i].name), norm) }

\* lines: one per name of the step and ingredient of that name
StepLines(ings, names) ==
    { <<n, i>> \in (DOMAIN names) \X (DOMAIN ings) : lower(ings[i].name) = names[n] }

\* the vague question: step = self.get_current_step(), outside any try
VagueQuantityAnswer(rec, current) ==
    IF current[1] = "raise" THEN <<"raise", "ValueError">>
    ELSE IF current[2].ingredients # <<>>
            /\ StepLines(rec[1].ingredients, current[2].ingredients) # {}
    THEN IF Cardinality(StepLines(rec[1].ingredients, current[2].ingredients)) = 1
         THEN <<"return", "For that, you need {ingredient}.">>
         ELSE <<"return", "For this step, the relevant quantities are:">>
    ELSE <<"return", "I'm not sure which ingredient you mean.">>

QuantityAnswer(rec, idx, mentioned) ==
    IF mentioned # {}
    THEN IF Cardinality(mentioned) = 1
         THEN <<"return", "You need {ingredient}.">>
         ELSE <<"return", "Here are the quantities:">>
    ELSE VagueQuantityAnswer(rec, get_current_step(rec, idx))

answer_quantity_question(rec, idx, user) ==
    IF rec = <<>> THEN <<"return", "No recipe loaded. Please load a recipe first.">>
    ELSE QuantityAnswer(rec, idx, Mentioned(rec[1].ingredients, normalize(user)))

\* step = self.get_current_step(), outside any try
VagueHowTo(current) ==
    IF current[1] = "raise" THEN <<"raise", "ValueError">>
    ELSE IF current[2].action # None /\ current[2].action # <<>>
    THEN <<"return", "https://www.youtube.com/results?search_query={query}">>
    ELSE IF current[2].methods # <<>>
    THEN <<"return", "https://www.youtube.com/results?search_query={query}">>
    ELSE <<"return", "I'm not sure what 'that' refers to in this step.">>

answer_vague_how_to(rec, idx) == VagueHowTo(get_current_step(rec, idx))

show_ingredients(rec) ==
    IF rec = <<>> THEN <<"return", "No recipe loaded. Please load a recipe first.">>
    ELSE <<"return", "Here are the ingredients for {title}:">>

\* ---------------------------------------------------------------------
\* RecipeBot: the methods that change the bot
\* ---------------------------------------------------------------------
\* the method returns (or raises) result and leaves the bot as it is
Respond(result) ==
    /\ ret' = <<result>>
    /\ UNCHANGED <<recipe, current_step_idx, pc, inputVars, outcome>>

\* the method moves to step index i and returns result
RespondAt(i, result) ==
    /\ current_step_idx' = i
    /\ ret' = <<result>>
    /\ UNCHANGED <<recipe, pc, inputVars, outcome>>

next_step ==
    IF recipe = <<>>
    THEN Respond(<<"return", "No recipe loaded. Please load a recipe first.">>)
    ELSE IF current_step_idx + 1 >= Len(recipe[1].steps)
    THEN Respond(<<"return", "You are at the last step.">>)
    ELSE RespondAt(current_step_idx + 1, show_current_step(recipe, current_step_idx + 1))

prev_step ==
    IF current_step_idx = 0
    THEN Respond(<<"return", "You are at the first step.">>)
    ELSE RespondAt(current_step_idx - 1, show_current_step(recipe, current_step_idx - 1))

\* what a URL may lead to: no answer (fetch_html raises), a page without
\* JSON-LD (parse_allrecipes_basic raises ValueError) or a recipe page
Page(kind, insts, lines) == [kind |-> kind, instructions |-> insts, raw_ingredients |-> lines]

SamplePages ==
    { Page("unreachable", <<>>, <<>>),
      Page("no JSON-LD", <<>>, <<>>),
      Page("recipe", <<>>, <<<<"1"," ","c","u","p"," ","S","u","g","a","r">>, <<"2"," ","t","b","s","p"," ","s","u","g","a","r",","," ","s","i","f","t","e","d">>>>),
      Page("recipe", <<StrEntry(<<"P","r","e","h","e","a","t"," ","o","v","e","n"," ","t","o"," ","3","5","0"," ","d","e","g","r","e","e","s"," ","F","."," ","M","i","x"," ","S","u","g","a","r",";"," ","b","a","k","e">>), StrEntry(<<"B","a","k","e"," ","t","h","e"," ","c","a","k","e"," ","3","0"," ","m","i","n","."," ","S","e","r","v","e">>)>>, <<<<"1"," ","c","u","p"," ","S","u","g","a","r">>, <<"2"," ","t","b","s","p"," ","s","u","g","a","r",","," ","s","i","f","t","e","d">>>>),
      Page("recipe", <<StrEntry(<<"B","r","o","i","l"," ","a","t"," ","5","0","0","F">>)>>, <<>>),
      Page("recipe", <<DictEntry(<<"S","t","i","r"," ","s","u","g","a","r",".">>)>>, <<<<"2"," ","t","b","s","p"," ","s","u","g","a","r",","," ","s","i","f","t","e","d">>, <<"1","/","0"," ","f","l","o","u","r">>>>) }

\* load_recipe resets the bot before it parses
load_recipe_reset_first(url) ==
    IF url = <<>> \/ strip(url) = <<>>
    THEN Respond(<<"return", "Please provide a valid URL.">>)
    ELSE IF ~(StartsWith(url, <<"h","t","t","p",":","/","/">>) \/ StartsWith(url, <<"h","t","t","p","s",":","/","/">>))
    THEN Respond(<<"return", "Please provide a valid URL starting with http:// or https://">>)
    ELSE \E page \in SamplePages :
            IF page.kind = "unreachable"
            THEN /\ recipe' = <<>> /\ current_step_idx' = 0
                 /\ ret' = <<<<"return", "Something went wrong loading that recipe: {e}">>>>
                 /\ UNCHANGED <<pc, inputVars, outcome>>
            ELSE IF page.kind = "no JSON-LD"
            THEN /\ recipe' = <<>> /\ current_step_idx' = 0
                 /\ ret' = <<<<"return", "Could not parse the recipe from that URL: {e}">>>>
                 /\ UNCHANGED <<pc, inputVars, outcome>>
            ELSE /\ pc' = "parse_allrecipes_basic"
                 /\ instructions' = page.instructions
                 /\ raw_ingredients' = page.raw_ingredients
                 /\ outcome' = <<>>
                 /\ ret' = <<>>
                 /\ recipe' = <<>> /\ current_step_idx' = 0

\* load_recipe up to the call of parse_recipe_from_url, and through the
\* except clauses when fetch_html or parse_allrecipes_basic raises at once
load_recipe(url) ==
    IF url = <<>> \/ strip(url) = <<>>
    THEN Respond(<<"return", "Please provide a valid URL.">>)
    ELSE IF ~(StartsWith(url, <<"h","t","t","p",":","/","/">>) \/ StartsWith(url, <<"h","t","t","p","s",":","/","/">>))
    THEN Respond(<<"return", "Please provide a valid URL starting with http:// or https://">>)
    ELSE \E page \in SamplePages :
            IF page.kind = "unreachable"
            THEN Respond(<<"return", "Something went wrong loading that recipe: {e}">>)
            ELSE IF page.kind = "no JSON-LD"
            THEN Respond(<<"return", "Could not parse the recipe from that URL: {e}">>)
            ELSE /\ pc' = "parse_allrecipes_basic"
                 /\ instructions' = page.instructions
                 /\ raw_ingredients' = page.raw_ingredients
                 /\ outcome' = <<>>
                 /\ ret' = <<>>
                 /\ UNCHANGED <<recipe, current_step_idx>>

\* handle_input from branch 2 on: a recipe is loaded
WithRecipe(raw, norm) ==
    IF InList(norm, << <<"1">>,
                    <<"i","n","g","r","e","d","i","e","n","t","s">>,
                    <<"i","n","g","r","e","d","i","e","n","t"," ","l","i","s","t">>,
                    <<"s","h","o","w"," ","m","e"," ","t","h","e"," ","i","n","g","r","e","d","i","e","n","t","s"," ","l","i","s","t">>,
                    <<"s","h","o","w"," ","i","n","g","r","e","d","i","e","n","t","s">>,
                    <<"g","o"," ","o","v","e","r"," ","i","n","g","r","e","d","i","e","n","t","s">> >>)
    THEN Respond(show_ingredients(recipe))
    ELSE IF InList(norm, << <<"2">>,
                         <<"s","t","e","p","s">>,
                         <<"g","o"," ","o","v","e","r"," ","s","t","e","p","s">>,
                         <<"s","t","a","r","t"," ","s","t","e","p","s">>,
                         <<"s","h","o","w"," ","s","t","e","p","s">> >>)
    THEN RespondAt(0, show_current_step(recipe, 0))
    ELSE IF is_next_command(norm) THEN next_step
    ELSE IF is_back_command(norm) THEN prev_step
    ELSE IF is_repeat_command(norm)
    THEN Respond(show_current_step(recipe, current_step_idx))
    ELSE IF \/ Contains(<<"f","i","r","s","t"," ","s","t","e","p">>, norm)
            \/ Contains(<<"g","o"," ","t","o"," ","s","t","e","p"," ","o","n","e">>, norm)
            \/ Contains(<<"g","o"," ","t","o"," ","t","h","e"," ","f","i","r","s","t"," ","s","t","e","p">>, norm)
    THEN RespondAt(0, show_current_step(recipe, 0))
    ELSE IF is_time_question(norm)
    THEN Respond(answer_time_question(recipe, current_step_idx))
    ELSE IF is_temp_question(norm)
    THEN Respond(answer_temp_question(recipe, current_step_idx))
    ELSE IF is_quantity_question(norm)
    THEN Respond(answer_quantity_question(recipe, current_step_idx, raw))
    ELSE IF StartsWith(norm, <<"w","h","a","t"," ","i","s"," ">>)
    THEN Respond(<<"return", "https://www.google.com/search?q=what+is+{query}">>)
    ELSE IF StartsWith(norm, <<"h","o","w"," ","d","o"," ","i"," ">>) \/ StartsWith(norm, <<"h","o","w"," ","t","o"," ">>)
    THEN Respond(<<"return", "https://www.youtube.com/results?search_query=how+to+{query}">>)
    ELSE IF \/ Contains(<<"h","o","w"," ","d","o"," ","i"," ","d","o"," ","t","h","a","t">>, norm)
            \/ Contains(<<"h","o","w"," ","d","o"," ","i"," ","d","o"," ","t","h","i","s">>, norm)
            \/ Contains(<<"h","o","w"," ","d","o"," ","i"," ","d","o"," ","i","t">>, norm)
    THEN Respond(answer_vague_how_to(recipe, current_step_idx))
    ELSE Respond(<<"return", "I didn't quite catch that.">>)

\* handle_input after raw = user.strip(), norm = self.normalize(raw)
Dispatch(raw, norm) ==
    IF StartsWith(raw, <<"h","t","t","p">>) THEN load_recipe(raw)
    ELSE IF recipe = <<>>
    THEN IF Contains(<<"a","l","l","r","e","c","i","p","e","s">>, norm)
         THEN load_recipe(<<"h","t","t","p","s",":","/","/">> \o raw)
         ELSE Respond(<<"return", "Please paste or say an AllRecipes.com URL first.">>)
    ELSE WithRecipe(raw, norm)

handle_input(user) == Dispatch(strip(user), normalize(strip(user)))

\* ---------------------------------------------------------------------
\* A caller of the bot: run() passing what the user said to handle_input,
\* or a direct call of load_recipe
\* ---------------------------------------------------------------------
BotMethods == {"__init__", "handle_input", "load_recipe"}

SampleUtterances ==
    { <<"h","t","t","p","s",":","/","/","a">>,
      <<"h","t","t","p","x">>,
      <<"a","l","l","r","e","c","i","p","e","s",".","c","o","m","/","r">>,
      <<"1">>,
      <<"2">>,
      <<"N","e","x","t",".">>,
      <<"g","o"," ","b","a","c","k">>,
      <<"R","e","p","e","a","t"," ","t","h","a","t">>,
      <<"f","i","r","s","t"," ","s","t","e","p">>,
      <<"H","o","w"," ","l","o","n","g","?">>,
      <<"o","v","e","n"," ","t","e","m","p","?">>,
      <<"H","o","w"," ","m","u","c","h"," ","s","u","g","a","r","?">>,
      <<"h","o","w"," ","m","u","c","h"," ","o","f"," ","t","h","a","t">>,
      <<"s","o"," ","h","o","w"," ","d","o"," ","I"," ","d","o"," ","t","h","a","t","?">>,
      <<"h","o","w"," ","d","o"," ","I"," ","d","o"," ","t","h","a","t">>,
      <<"W","h","a","t"," ","i","s"," ","a"," ","p","a","n","?">>,
      <<"h","e","l","l","o">> }

SampleUrls ==
    { <<>>,
      <<" ">>,
      <<"a",".","c","o","m">>,
      <<"h","t","t","p","s",":","/","/","a">> }

InitBot ==
    /\ EngineIdle /\ BotIdle
    /\ fn = "__init__" /\ arg = <<>> /\ ret = <<None>>

HandleInput ==
    /\ fn \in BotMethods /\ ret # <<>>
    /\ \E user \in SampleUtterances :
          /\ fn' = "handle_input" /\ arg' = user
          /\ before' = <<recipe, current_step_idx>>
          /\ handle_input(user)
    /\ UNCHANGED <<steps_raw, ingredients, localVars, historyVars>>

CallLoadRecipe ==
    /\ fn \in BotMethods /\ ret # <<>>
    /\ \E url \in SampleUrls :
          /\ fn' = "load_recipe" /\ arg' = url
          /\ before' = <<recipe, current_step_idx>>
          /\ load_recipe(url)
    /\ UNCHANGED <<steps_raw, ingredients, localVars, historyVars>>

\* parse_recipe_from_url came back to load_recipe and the index is kept
LoadRecipeReturnKeepIndex ==
    /\ fn \in BotMethods /\ ret = <<>> /\ pc = "done"
    /\ IF outcome[1] = "return"
       THEN /\ recipe' = <<outcome[2]>>
            /\ ret' = <<<<"return", "Alright. So let's start working with {title}.">>>>
            /\ UNCHANGED current_step_idx
       ELSE /\ ret' = <<<<"return", "Something went wrong loading that recipe: {e}">>>>
            /\ UNCHANGED <<recipe, current_step_idx>>
    /\ UNCHANGED <<fn, arg, before, engineVars>>

\* parse_recipe_from_url came back to load_recipe: the assignments of the
\* try block, or the except clause
LoadRecipeReturn ==
    /\ fn \in BotMethods /\ ret = <<>> /\ pc = "done"
    /\ IF outcome[1] = "return"
       THEN /\ recipe' = <<outcome[2]>>
            /\ current_step_idx' = 0
            /\ ret' = <<<<"return", "Alright. So let's start working with {title}.">>>>
       ELSE /\ ret' = <<<<"return", "Something went wrong loading that recipe: {e}">>>>
            /\ UNCHANGED <<recipe, current_step_idx>>
    /\ UNCHANGED <<fn, arg, before, engineVars>>

NextBot ==
    \/ HandleInput
    \/ CallLoadRecipe
    \/ ParseAllrecipesBasic
    \/ ParseIngredients
    \/ BuildStepsEnter
    \/ NextRawStep
    \/ ProcessClause
    \/ ReturnRecipe
    \/ LoadRecipeReturn

SpecBot == InitBot /\ [][NextBot]_vars

\* ---------------------------------------------------------------------
\* Properties of parse_quantity and parse_ingredient_line
\* ---------------------------------------------------------------------
Returned(f) == fn = f /\ ret # <<>>

\* a simple fraction num/den, both parts decimal, den zero
IsZeroFraction(t) ==
    /\ InList("/", t) /\ ~InList("-", t)
    /\ LET parts == SplitAt(t, {"/"})
       IN  /\ Len(parts) = 2
           /\ IsFloat(float(parts[1]))
           /\ IsFloat(float(parts[2])) /\ float(parts[2])[2] = 0

\* a mixed number base-num/den whose fraction has a zero denominator
IsZeroMixed(t) ==
    /\ InList("-", t)
    /\ LET parts == SplitAt(t, {"-"})
       IN  Len(parts) = 2 /\ IsZeroFraction(parts[2])

\* C3: parse_quantity of a fraction or mixed number with a zero denominator
\* returns None and raises nothing.
C3_ZeroDenominatorIsNone ==
    (Returned("parse_quantity") /\ (IsZeroFraction(arg) \/ IsZeroMixed(arg)))
        => ret[1] = None

\* C6: whatever parse_quantity returns is None or a number >= 0.
C6_QuantityNonNegative ==
    (Returned("parse_quantity") /\ ~IsRaise(ret[1]))
        => (ret[1] = None \/ (IsFloat(ret[1]) /\ FloatGeqZero(ret[1])))

\* C4: parse_ingredient_line returns an Ingredient for every line and never
\* raises.
C4_IngredientLineNeverRaises ==
    Returned("parse_ingredient_line") => ~Raised(ret[1])

\* the unit is absent, or it is the token at position k, lower-cased, and
\* that token is in the unit lexicon
UnitFromToken(unit, tokens, k) ==
    unit # None =>
        /\ k <= Len(tokens)
        /\ InList(lower(tokens[k]), UNITS)
        /\ unit = lower(tokens[k])

\* the fields quantity and unit against the tokens of the trimmed line
QuantityAndUnitFromHead(ing, tokens) ==
    /\ ing.quantity # None => (tokens # <<>> /\ parse_quantity(tokens[1]) = ing.quantity)
    /\ UnitFromToken(ing.unit, tokens, IF ing.quantity # None THEN 2 ELSE 1)

\* C12: in every Ingredient that parse_ingredient_line returns, quantity is
\* present only if the first token of the trimmed line parses as a quantity,
\* and unit is present only if the token right after the quantity token (the
\* first token when there is no quantity) is, lower-cased, an entry of UNITS,
\* and then unit is that token lower-cased; a unit word further on is never
\* the unit.
C12_QuantityAndUnitFromHead ==
    (Returned("parse_ingredient_line") /\ ~Raised(ret[1]))
        => QuantityAndUnitFromHead(ret[1], SplitWords(strip(arg)))

\* a line without quantity whose unit word stands after the first token:
\* no unit
C12_Witness ==
    /\ Returned("parse_ingredient_line") /\ ~Raised(ret[1])
    /\ ret[1].quantity = None /\ ret[1].unit = None
    /\ \E i \in DOMAIN SplitWords(strip(arg)) :
          i > 1 /\ InList(lower(SplitWords(strip(arg))[i]), UNITS)

\* ---------------------------------------------------------------------
\* Properties of extract_temperature
\* ---------------------------------------------------------------------
AllDigits(t, lo, hi) == \A k \in lo..hi : IsDigit(t[k])
AllSpaces(t, lo, hi) == \A k \in lo..hi : IsSpace(t[k])

\* the positions e such that t[i..e] is: digits, whitespace or none, then
\* either nothing or the word degrees and at least gap whitespace
\* characters, then one letter F or C, all ignoring case
TemperatureEnds(t, i, gap) ==
    { e \in (i + 1)..Len(t) :
        /\ lower(<<t[e]>>) \in {<<"f">>, <<"c">>}
        /\ \E a \in i..(e - 1) :
              /\ AllDigits(t, i, a)
              /\ \E b \in a..(e - 1) :
                    /\ AllSpaces(t, a + 1, b)
                    /\ \/ b = e - 1
                       \/ /\ b + 7 + gap <= e - 1
                          /\ lower(SubSeq(t, b + 1, b + 7)) = <<"d","e","g","r","e","e","s">>
                          /\ AllSpaces(t, b + 8, e - 1) }

\* the positions where a match starts
MatchStarts(t, gap) == { i \in DOMAIN t : TemperatureEnds(t, i, gap) # {} }

\* result is the mapping with the leftmost match under key oven, or empty
FirstMatchIs(t, result, starts, gap) ==
    IF starts = {} THEN result = {}
    ELSE \E e \in TemperatureEnds(t, FirstOf(starts), gap) :
            result = {<<"oven", SubSeq(t, FirstOf(starts), e)>>}

\* C13 as amended: extract_temperature returns under key oven the text of
\* the leftmost match, ignoring case, of digits, optional whitespace,
\* optionally the word degrees and optional whitespace, then F or C, and the
\* empty mapping when there is no match; degrees directly followed by F or
\* C is a match.
C13_FirstTemperatureMatch ==
    Returned("extract_temperature") => FirstMatchIs(arg, ret[1], MatchStarts(arg, 0), 0)

\* the match is not at the start of the text and holds degrees directly
\* followed by the letter
C13_Witness ==
    /\ Returned("extract_temperature")
    /\ HasKey(ret[1], "oven")
    /\ Get(ret[1], "oven") # arg
    /\ Len(Get(ret[1], "oven")) >= 9
    /\ \A k \in DOMAIN Get(ret[1], "oven") : ~IsSpace(Get(ret[1], "oven")[k])

\* C13: as C13_FirstTemperatureMatch, but the word degrees must be followed
\* by whitespace: the result is empty when degrees is directly followed by F
\* or C.
C13_DegreesNeedsWhitespace ==
    Returned("extract_temperature") => FirstMatchIs(arg, ret[1], MatchStarts(arg, 1), 1)

\* ---------------------------------------------------------------------
\* Properties of split_into_atomic_steps
\* ---------------------------------------------------------------------
IsSeparator(c) == c \in {".", ";"}

\* positions that bound the runs: before the text, each separator, after it
Cuts(text) == {0, Len(text) + 1} \cup { i \in DOMAIN text : IsSeparator(text[i]) }

\* the run that starts after cut c
RunAfter(text, c) ==
    LET n == CHOOSE d \in Cuts(text) :
                 d > c /\ \A e \in Cuts(text) : e > c => d <= e
    IN  SubSeq(text, c + 1, n - 1)

\* a run without its surrounding whitespace
Trimmed(piece) ==
    LET solid == { i \in DOMAIN piece : ~IsSpace(piece[i]) }
    IN  IF solid = {} THEN <<>>
        ELSE SubSeq(piece, CHOOSE i \in solid : \A j \in solid : i <= j,
                         CHOOSE i \in solid : \A j \in solid : i >= j)

\* the cuts followed by a run that is not empty or whitespace-only
KeptCuts(text) ==
    { c \in Cuts(text) \ {Len(text) + 1} : Trimmed(RunAfter(text, c)) # <<>> }

NthKeptCut(text, n) ==
    CHOOSE c \in KeptCuts(text) : Cardinality({ d \in KeptCuts(text) : d < c }) = n - 1

\* C10: the clauses are the trimmed maximal runs between separators, in
\* order, without the empty ones; no clause is empty, starts or ends with
\* whitespace, or holds a separator.
C10_ClausesAreTrimmedRuns ==
    Returned("split_into_atomic_steps") =>
        LET out == ret[1] IN
        /\ Len(out) = Cardinality(KeptCuts(arg))
        /\ \A n \in DOMAIN out :
              /\ out[n] = Trimmed(RunAfter(arg, NthKeptCut(arg, n)))
              /\ out[n] # <<>>
              /\ ~IsSpace(out[n][1]) /\ ~IsSpace(out[n][Len(out[n])])
              /\ \A i \in DOMAIN out[n] : ~IsSeparator(out[n][i])

\* two clauses are returned, a run between separators was dropped and a
\* clause lost surrounding whitespace
C10_Witness ==
    /\ Returned("split_into_atomic_steps")
    /\ Len(ret[1]) >= 2
    /\ \E c \in Cuts(arg) \ {Len(arg) + 1} : Trimmed(RunAfter(arg, c)) = <<>>
    /\ \E c \in KeptCuts(arg) : Trimmed(RunAfter(arg, c)) # RunAfter(arg, c)

\* ---------------------------------------------------------------------
\* Properties of collect_recipe_tools_and_methods
\* ---------------------------------------------------------------------
Ascending(list) == \A i, j \in DOMAIN list : i < j => StrLess(list[i], list[j])

Permuted(list, p) == [i \in DOMAIN list |-> list[p[i]]]

\* C9: both lists are in ascending order without duplicate, hold exactly the
\* tools (methods) of all steps, and are the same for every permutation of
\* the step list.
C9_CollectSortedUnion ==
    Returned("collect_recipe_tools_and_methods") =>
        /\ Ascending(ret[1][1])
        /\ Ascending(ret[1][2])
        /\ \A i, j \in DOMAIN ret[1][1] : i # j => ret[1][1][i] # ret[1][1][j]
        /\ \A i, j \in DOMAIN ret[1][2] : i # j => ret[1][2][i] # ret[1][2][j]
        /\ Range(ret[1][1]) = UNION { Range(arg[k].tools) : k \in DOMAIN arg }
        /\ Range(ret[1][2]) = UNION { Range(arg[k].methods) : k \in DOMAIN arg }
        /\ \A p \in Permutations(DOMAIN arg) :
              collect_recipe_tools_and_methods(Permuted(arg, p)) = ret[1]

\* two steps repeat a tool, and the tools first appear in descending order
C9_Witness ==
    /\ Returned("collect_recipe_tools_and_methods")
    /\ Len(arg) >= 2
    /\ \E t \in Range(arg[1].tools) : t \in Range(arg[2].tools)
    /\ \E i, j \in DOMAIN AllTools(arg) :
          i < j /\ StrLess(AllTools(arg)[j], AllTools(arg)[i])
    /\ Len(ret[1][1]) >= 2 /\ Len(ret[1][2]) >= 2

\* ---------------------------------------------------------------------
\* Properties of build_steps and parse_recipe_from_url
\* ---------------------------------------------------------------------
Finished == pc = "done" /\ fn = "parse_recipe_from_url"
Returns == Finished /\ outcome[1] = "return"

RECURSIVE TotalClauses(_)
TotalClauses(raws) ==
    IF raws = <<>> THEN 0
    ELSE Len(split_into_atomic_steps(Head(raws))) + TotalClauses(Tail(raws))

\* C1: the steps carry the numbers 1, 2, ..., N in list order, N the number
\* of clauses of all instructions; the counter is never reset between two
\* instructions.
C1_StepNumbersSequential ==
    /\ \A i \in DOMAIN steps : steps[i].step_number = i
    /\ pc = "loop" => step_counter = Len(steps) + 1
    /\ Returns =>
          /\ Len(outcome[2].steps) = TotalClauses(steps_raw)
          /\ \A i \in DOMAIN outcome[2].steps : outcome[2].steps[i].step_number = i

\* two instructions with clauses each, three steps or more
C1_Witness ==
    /\ Returns
    /\ Len(steps_raw) >= 2
    /\ split_into_atomic_steps(steps_raw[1]) # <<>>
    /\ split_into_atomic_steps(steps_raw[2]) # <<>>
    /\ Len(outcome[2].steps) >= 3

\* the steps up to i whose own temperature has the key oven
OvenSteps(list, i) == { j \in 1..i : HasKey(list[j].temperature, "oven") }
Latest(S) == CHOOSE j \in S : \A k \in S : k <= j

\* C2: context has oven_temperature at step i exactly when a step j <= i has
\* an oven temperature, and then it is the value of the latest such step; it
\* is not cleared when the next instruction begins.
C2_OvenTemperatureCarried ==
    \A i \in DOMAIN steps :
        /\ HasKey(steps[i].context, "oven_temperature") <=> OvenSteps(steps, i) # {}
        /\ OvenSteps(steps, i) # {} =>
              Get(steps[i].context, "oven_temperature")
                  = Get(steps[Latest(OvenSteps(steps, i))].temperature, "oven")

\* a step of the second instruction mentions no temperature and inherits the
\* one of the first instruction
C2_Witness ==
    /\ Returns
    /\ Len(steps_raw) >= 2
    /\ \E i \in DOMAIN steps :
          /\ i > Len(split_into_atomic_steps(steps_raw[1]))
          /\ steps[i].temperature = {}
          /\ HasKey(steps[i].context, "oven_temperature")
          /\ Latest(OvenSteps(steps, i)) <= Len(split_into_atomic_steps(steps_raw[1]))

\* C5: an instruction list with an entry that is not a string makes the
\* engine stop with an invalid-input failure; the entry is not skipped or
\* coerced, so no Recipe is ever returned for such a list.
C5_NonStringInstructionRejected ==
    (\E i \in DOMAIN instructions : instructions[i].kind # "str") => ~Returns

\* C7: no step lists an ingredient name twice, and objects is the same list.
C7_StepIngredientsDistinct ==
    \A i \in DOMAIN steps :
        /\ steps[i].objects = steps[i].ingredients
        /\ \A a, b \in DOMAIN steps[i].ingredients :
              a # b => steps[i].ingredients[a] # steps[i].ingredients[b]

\* C8: an invocation on the input of an earlier invocation ends with the
\* same outcome, whatever was parsed in between.
C8_RepeatedRunEqual ==
    (Finished /\ <<instructions, raw_ingredients>> = primary /\ reference # <<>>)
        => outcome = reference[1]

\* the third invocation repeats the first after one on another input that
\* set an oven temperature, and returns steps without carried temperature
C8_Witness ==
    /\ Returns
    /\ run = 3 /\ others = 1
    /\ <<instructions, raw_ingredients>> = primary
    /\ primary \notin OtherInputs
    /\ reference # <<>>
    /\ \E i \in DOMAIN outcome[2].steps : outcome[2].steps[i].context = {}

\* the descriptions of a step list, in list order
Descriptions(list) == [i \in DOMAIN list |-> list[i].description]

\* the clauses of the instructions, instruction after instruction
RECURSIVE ClausesOf(_)
ClausesOf(raws) ==
    IF raws = <<>> THEN <<>>
    ELSE split_into_atomic_steps(Head(raws)) \o ClausesOf(Tail(raws))

\* a step that matched no tool, method, duration, temperature or ingredient
IsPlain(step) ==
    /\ step.tools = <<>> /\ step.methods = <<>> /\ step.ingredients = <<>>
    /\ step.time = {} /\ step.temperature = {}

\* C11: build_steps emits exactly one Step per clause: the descriptions of
\* the steps are the clauses of the instructions taken so far, in order, up
\* to the clauses still waiting, and the returned steps have the clauses of
\* all instructions as descriptions, none dropped, duplicated or reordered;
\* no instruction gives no step.
C11_OneStepPerClause ==
    /\ pc = "loop" =>
          Descriptions(steps) \o atomic_texts = ClausesOf(SubSeq(steps_raw, 1, raw_index))
    /\ Returns => Descriptions(outcome[2].steps) = ClausesOf(steps_raw)
    /\ (Returns /\ instructions = <<>>) => outcome[2].steps = <<>>

\* two instructions are returned as three steps or more, one of them a
\* clause that matched nothing
C11_Witness ==
    /\ Returns
    /\ Len(steps_raw) >= 2
    /\ Len(outcome[2].steps) >= 3
    /\ \E i \in DOMAIN outcome[2].steps : IsPlain(outcome[2].steps[i])

\* ---------------------------------------------------------------------
\* Properties of RecipeBot
\* ---------------------------------------------------------------------
\* a call of a method of the bot has come back
Answered == fn \in {"handle_input", "load_recipe"} /\ ret # <<>>

\* handle_input has come back for an utterance that normalizes to norm
AnsweredTo(norm) == fn = "handle_input" /\ ret # <<>> /\ normalize(arg) = norm

\* the call that came back was a load that succeeded
LoadSucceeded ==
    Answered /\ ret[1] = <<"return", "Alright. So let's start working with {title}.">>

\* the call that came back was a load that failed
LoadFailed ==
    /\ Answered
    /\ ret[1][1] = "return"
    /\ ret[1][2] \in { "Please provide a valid URL.",
                       "Please provide a valid URL starting with http:// or https://",
                       "Could not parse the recipe from that URL: {e}",
                       "Something went wrong loading that recipe: {e}" }

\* C14: current_step_idx is never negative and, when a recipe with a step is
\* loaded, below the number of steps; next at the last step and back at the
\* first step leave the index where it is, and a load that succeeds sets it
\* to 0.
C14_StepIndexInRange ==
    /\ current_step_idx >= 0
    /\ (recipe # <<>> /\ recipe[1].steps # <<>>) =>
          current_step_idx < Len(recipe[1].steps)
    /\ (AnsweredTo(<<"n","e","x","t">>) /\ before[1] # <<>>
            /\ before[2] + 1 >= Len(before[1][1].steps)) =>
          (current_step_idx = before[2] /\ recipe = before[1])
    /\ (AnsweredTo(<<"g","o"," ","b","a","c","k">>) /\ before[1] # <<>> /\ before[2] = 0) =>
          (current_step_idx = 0 /\ recipe = before[1])
    /\ LoadSucceeded => (current_step_idx = 0 /\ recipe # <<>>)

\* next was said at the last step of a recipe of several steps, reached by
\* navigation
C14_Witness ==
    /\ AnsweredTo(<<"n","e","x","t">>)
    /\ recipe # <<>>
    /\ Len(recipe[1].steps) >= 2
    /\ before[2] = Len(recipe[1].steps) - 1
    /\ current_step_idx = before[2]

\* C15: handle_input returns a response and never raises, whatever the
\* utterance and the loaded recipe, a recipe without steps included.
C15_HandleInputNeverRaises ==
    (fn = "handle_input" /\ ret # <<>>) => ret[1][1] = "return"

\* C16: a load that fails returns an error message and leaves the recipe
\* loaded before and current_step_idx as they were; they are untouched also
\* while parse_recipe_from_url runs.
C16_FailedLoadKeepsRecipe ==
    /\ LoadFailed => (recipe = before[1] /\ current_step_idx = before[2])
    /\ (fn \in {"handle_input", "load_recipe"} /\ ret = <<>>) =>
          (recipe = before[1] /\ current_step_idx = before[2])

\* the load failed on an exception of parse_recipe_from_url while an earlier
\* recipe was at a later step
C16_Witness ==
    /\ LoadFailed
    /\ ret[1][2] = "Something went wrong loading that recipe: {e}"
    /\ pc = "done" /\ outcome # <<>> /\ outcome[1] = "raise"
    /\ recipe # <<>>
    /\ before[2] > 0

====
